---- MODULE Spec2Model ----
(***************************************************************************)
(* A model of limbo's core/types.rs: the OwnedValue ordering, the `+` and  *)
(* `/` coercions, the borrowed view to_value, OwnedRecord::serialize and   *)
(* the Cursor polling contract.                                            *)
(*                                                                         *)
(* i64 payloads keep their 64-bit width: an i64 is four 16-bit limbs, most *)
(* significant first, in two's complement.  f64 payloads are the doubles   *)
(* +-m * 2^e with a small odd m, the zeros, the infinities and NaN; every  *)
(* operation on them gives the IEEE-754 result, and an operation whose     *)
(* result would need rounding lies outside the modelled inputs.  Strings   *)
(* and blobs are sequences of bytes.                                       *)
(***************************************************************************)
EXTENDS Integers, Sequences, FiniteSets, TLC

VARIABLES
    a,          \* value spec: the left operand (self)
    b,          \* value spec: the right operand (other / rhs)
    out,        \* value spec: what the last operation returned
    chain,      \* value spec: number of += and /= applied to a
    rec,        \* record spec: the OwnedRecord's values
    buf,        \* record spec: the caller's buffer
    ser,        \* record spec: outcome of serialize ("idle", "done", "abort")
    init_buf,   \* record spec: the buffer as it was when serialize was called
    tree,       \* cursor spec: the keys stored, in order
    cached,     \* cursor spec: the pages already fetched
    pos,        \* cursor spec: index of the row the cursor is on (0: none)
    pending,    \* cursor spec: the operation being polled, or NoOp
    retries,    \* cursor spec: IO results returned for the pending operation
    ret,        \* cursor spec: the last CursorResult returned
    start,      \* cursor spec: cursor state when the pending operation began
    inflight,   \* cursor spec: the pages requested from the store, not yet in
    calls       \* cursor spec: number of operations begun

vars == <<a, b, out, chain, rec, buf, ser, init_buf,
          tree, cached, pos, pending, retries, ret, start, inflight, calls>>

(***************************************************************************)
(* i64: 64-bit two's complement integers as four limbs.                    *)
(***************************************************************************)
LimbBase == 2^16

Limbs == 4

UZero == <<0, 0, 0, 0>>

UOne == <<0, 0, 0, 1>>

UIsZero(x) == x = UZero

\* x + y + cin on 64 bits, with the carry out.
UAddC(x, y, cin) ==
    LET s4 == x[4] + y[4] + cin
        s3 == x[3] + y[3] + (s4 \div LimbBase)
        s2 == x[2] + y[2] + (s3 \div LimbBase)
        s1 == x[1] + y[1] + (s2 \div LimbBase)
    IN  [sum |-> <<s1 % LimbBase, s2 % LimbBase, s3 % LimbBase, s4 % LimbBase>>,
         carry |-> s1 \div LimbBase]

UAdd(x, y) == UAddC(x, y, 0).sum

UNot(x) ==
    <<LimbBase - 1 - x[1], LimbBase - 1 - x[2], LimbBase - 1 - x[3], LimbBase - 1 - x[4]>>

\* two's complement negation, modulo 2^64
UNeg(x) == UAddC(UNot(x), UZero, 1).sum

\* x - y modulo 2^64
USub(x, y) == UAddC(x, UNot(y), 1).sum

\* unsigned comparison
ULess(x, y) ==
    \E i \in 1..Limbs : x[i] < y[i] /\ \A j \in 1..(i - 1) : x[j] = y[j]

ULeq(x, y) == x = y \/ ULess(x, y)

UShl1(x) == UAdd(x, x)

UShr1(x) ==
    <<x[1] \div 2,
      (x[1] % 2) * (LimbBase \div 2) + x[2] \div 2,
      (x[2] % 2) * (LimbBase \div 2) + x[3] \div 2,
      (x[3] % 2) * (LimbBase \div 2) + x[4] \div 2>>

UTopBit(x) == x[1] \div (LimbBase \div 2)

ULowBit(x) == x[4] % 2

\* The sign bit of an i64.
INeg(x) == UTopBit(x) = 1

I64_MIN == <<LimbBase \div 2, 0, 0, 0>>

I64_MAX == <<LimbBase \div 2 - 1, LimbBase - 1, LimbBase - 1, LimbBase - 1>>

\* The i64 of a small integer literal n, |n| < 2^31.
I64(n) ==
    IF n >= 0 THEN <<0, 0, n \div LimbBase, n % LimbBase>>
    ELSE UNeg(<<0, 0, (-n) \div LimbBase, (-n) % LimbBase>>)

\* |x| as an unsigned 64-bit number (2^63 for i64::MIN).
IAbs(x) == IF INeg(x) THEN UNeg(x) ELSE x

\* i64::partial_cmp / cmp
ICmp(x, y) ==
    IF x = y THEN "Equal"
    ELSE IF INeg(x) # INeg(y) THEN (IF INeg(x) THEN "Less" ELSE "Greater")
    ELSE IF ULess(x, y) THEN "Less" ELSE "Greater"

\* i64 + i64 leaves the i64 range
IAddOverflows(x, y) == INeg(x) = INeg(y) /\ INeg(UAdd(x, y)) # INeg(x)

\* unsigned long division, one bit per step: n holds the bits not yet
\* brought down, q the quotient bits so far, r the running remainder.
RECURSIVE UDivLoop(_, _, _, _, _)
UDivLoop(n, d, q, r, k) ==
    IF k = 0 THEN [quot |-> q, rem |-> r]
    ELSE LET r2 == UAddC(r, r, UTopBit(n)).sum
             q2 == UShl1(q)
         IN  IF q2 = q2 /\ ULeq(d, r2)   \* (q2 = q2 has TLC evaluate q2 at this step)
             THEN UDivLoop(UShl1(n), d, UAdd(q2, UOne), USub(r2, d), k - 1)
             ELSE UDivLoop(UShl1(n), d, q2, r2, k - 1)

UDivMod(n, d) == UDivLoop(n, d, UZero, UZero, 16 * Limbs)

\* i64 / i64 aborts: a zero divisor ("attempt to divide by zero") and
\* i64::MIN / -1 ("attempt to divide with overflow") panic in every build.
IDivPanics(x, y) == UIsZero(y) \/ (x = I64_MIN /\ y = I64(-1))

\* i64 / i64 where it does not abort: the quotient truncated toward zero
IDiv(x, y) ==
    LET q == UDivMod(IAbs(x), IAbs(y)).quot
    IN  IF INeg(x) # INeg(y) THEN UNeg(q) ELSE q

\* x divided by a small n (0 < n < 2^15): quotient limbs and remainder
UDivSmall(x, n) ==
    LET c1 == x[1]
        c2 == (c1 % n) * LimbBase + x[2]
        c3 == (c2 % n) * LimbBase + x[3]
        c4 == (c3 % n) * LimbBase + x[4]
    IN  [quot |-> <<c1 \div n, c2 \div n, c3 \div n, c4 \div n>>, rem |-> c4 % n]

\* ASCII
Ch0 == 48

ChMinus == 45

ChDot == 46

RECURSIVE UDigits(_)
UDigits(x) ==
    IF UIsZero(x) THEN <<>>
    ELSE LET d == UDivSmall(x, 10) IN UDigits(d.quot) \o <<Ch0 + d.rem>>

\* i64::to_string: the decimal digits, '-' first when negative
IToString(x) ==
    IF UIsZero(x) THEN <<Ch0>>
    ELSE (IF INeg(x) THEN <<ChMinus>> ELSE <<>>) \o UDigits(IAbs(x))

\* i64::to_be_bytes
IToBeBytes(x) ==
    <<x[1] \div 256, x[1] % 256, x[2] \div 256, x[2] % 256,
      x[3] \div 256, x[3] % 256, x[4] \div 256, x[4] % 256>>

(***************************************************************************)
(* f64.  A double is NaN, an infinity, a zero, or +-m * 2^e with m odd.    *)
(* MantBits bounds the mantissas the model holds; f64 itself has 53 bits,  *)
(* so every value held is a double and an exact result is the IEEE result. *)
(***************************************************************************)
MantBits == 24

F64_MANTISSA_DIGITS == 53

F64_EXP_BIAS == 1023

FNaN == [k |-> "nan", neg |-> FALSE, m |-> 0, e |-> 0]

FInf(neg) == [k |-> "inf", neg |-> neg, m |-> 0, e |-> 0]

FZero(neg) == [k |-> "fin", neg |-> neg, m |-> 0, e |-> 0]

RECURSIVE FNorm(_, _, _)
FNorm(neg, m, e) ==
    IF m = 0 THEN FZero(neg)
    ELSE IF m % 2 = 0 THEN FNorm(neg, m \div 2, e + 1)
    ELSE [k |-> "fin", neg |-> neg, m |-> m, e |-> e]

\* the double n / 2^k, for writing literals: F(3, 1) is 1.5
F(n, k) == FNorm(n < 0, IF n < 0 THEN -n ELSE n, -k)

RECURSIVE BitLen(_)
BitLen(n) == IF n = 0 THEN 0 ELSE 1 + BitLen(n \div 2)

FIsNaN(x) == x.k = "nan"

FIsZero(x) == x.k = "fin" /\ x.m = 0

FHeld(x) == x.m < 2^MantBits

\* -1, 0, 1: the sign of a non-NaN double as a number
FSign(x) == IF FIsZero(x) THEN 0 ELSE IF x.neg THEN -1 ELSE 1

\* |x| < |y| for non-zero, non-NaN doubles
FMagLess(x, y) ==
    IF x.k = "inf" THEN FALSE
    ELSE IF y.k = "inf" THEN TRUE
    ELSE LET tx == x.e + BitLen(x.m)
             ty == y.e + BitLen(y.m)
             lo == IF x.e < y.e THEN x.e ELSE y.e
         IN  IF tx # ty THEN tx < ty
             ELSE x.m * 2^(x.e - lo) < y.m * 2^(y.e - lo)

FLess(x, y) ==
    IF FSign(x) # FSign(y) THEN FSign(x) < FSign(y)
    ELSE IF FSign(x) = 0 THEN FALSE
    ELSE IF FSign(x) = 1 THEN FMagLess(x, y)
    ELSE FMagLess(y, x)

\* f64::partial_cmp: None when either side is NaN; -0.0 equals 0.0
FCmp(x, y) ==
    IF FIsNaN(x) \/ FIsNaN(y) THEN "None"
    ELSE IF FLess(x, y) THEN "Less"
    ELSE IF FLess(y, x) THEN "Greater"
    ELSE "Equal"

\* f64 ==
FEq(x, y) == FCmp(x, y) = "Equal"

\* the shifted mantissas of an exact sum stay below 2^30
FAddHeld(x, y) ==
    IF x.k # "fin" \/ y.k # "fin" \/ x.m = 0 \/ y.m = 0 THEN TRUE
    ELSE LET lo == IF x.e < y.e THEN x.e ELSE y.e
         IN  /\ x.e - lo + BitLen(x.m) <= 30
             /\ y.e - lo + BitLen(y.m) <= 30

\* f64 + f64 (IEEE-754, round to nearest; exact on the operands held)
FAdd(x, y) ==
    IF FIsNaN(x) \/ FIsNaN(y) THEN FNaN
    ELSE IF x.k = "inf" /\ y.k = "inf" THEN (IF x.neg = y.neg THEN x ELSE FNaN)
    ELSE IF x.k = "inf" THEN x
    ELSE IF y.k = "inf" THEN y
    ELSE IF x.m = 0 /\ y.m = 0 THEN FZero(x.neg /\ y.neg)
    ELSE IF x.m = 0 THEN y
    ELSE IF y.m = 0 THEN x
    ELSE LET lo == IF x.e < y.e THEN x.e ELSE y.e
             sx == (IF x.neg THEN -1 ELSE 1) * x.m * 2^(x.e - lo)
             sy == (IF y.neg THEN -1 ELSE 1) * y.m * 2^(y.e - lo)
             s  == sx + sy
         IN  IF s = 0 THEN FZero(FALSE)
             ELSE FNorm(s < 0, IF s < 0 THEN -s ELSE s, lo)

\* the quotient of two finite non-zero doubles is exact
FDivHeld(x, y) ==
    IF x.k # "fin" \/ y.k # "fin" \/ x.m = 0 \/ y.m = 0 THEN TRUE
    ELSE x.m % y.m = 0

\* f64 / f64 (IEEE-754)
FDiv(x, y) ==
    LET neg == x.neg # y.neg
    IN  IF FIsNaN(x) \/ FIsNaN(y) THEN FNaN
        ELSE IF x.k = "inf" THEN (IF y.k = "inf" THEN FNaN ELSE FInf(neg))
        ELSE IF y.k = "inf" THEN FZero(neg)
        ELSE IF y.m = 0 THEN (IF x.m = 0 THEN FNaN ELSE FInf(neg))
        ELSE IF x.m = 0 THEN FZero(neg)
        ELSE FNorm(neg, x.m \div y.m, x.e - y.e)

\* i64 as f64: keep the 53 leading bits, round to nearest, ties to even.
\* x is the magnitude still to shift, sh the bits shifted out so far, g the
\* last bit shifted out and st whether any earlier one was set.
RECURSIVE URound53(_, _, _, _)
URound53(x, sh, g, st) ==
    IF x[1] < 2^(F64_MANTISSA_DIGITS - 48)
    THEN [mag |-> IF g = 1 /\ (st \/ ULowBit(x) = 1) THEN UAdd(x, UOne) ELSE x,
          sh |-> sh]
    ELSE URound53(UShr1(x), sh + 1, ULowBit(x), st \/ g = 1)

RECURSIVE UStrip(_, _)
UStrip(x, sh) ==
    IF UIsZero(x) THEN [mag |-> x, sh |-> 0]
    ELSE IF ULowBit(x) = 0 THEN UStrip(UShr1(x), sh + 1)
    ELSE [mag |-> x, sh |-> sh]

IAsF64Parts(x) ==
    LET r == URound53(IAbs(x), 0, 0, FALSE) IN UStrip(r.mag, r.sh)

\* the double of x has a mantissa the model holds
IAsF64Held(x) ==
    LET p == IAsF64Parts(x)
    IN  p.mag[1] = 0 /\ p.mag[2] = 0 /\ p.mag[3] * LimbBase + p.mag[4] < 2^MantBits

\* `x as f64`
IAsF64(x) ==
    LET p == IAsF64Parts(x)
    IN  IF UIsZero(p.mag) THEN FZero(FALSE)
        ELSE [k |-> "fin", neg |-> INeg(x),
              m |-> p.mag[3] * LimbBase + p.mag[4], e |-> p.sh]

RECURSIVE NatDigits(_)
NatDigits(n) == IF n < 10 THEN <<Ch0 + n>> ELSE NatDigits(n \div 10) \o <<Ch0 + (n % 10)>>

\* the k decimal digits of f, leading zeros kept
RECURSIVE FracDigits(_, _)
FracDigits(f, k) ==
    IF k = 0 THEN <<>> ELSE FracDigits(f \div 10, k - 1) \o <<Ch0 + (f % 10)>>

\* the doubles whose {:?} form is the plain decimal expansion written here:
\* NaN, the infinities, the zeros, and 2^-4 <= |x| < 2^30
FDebugHeld(x) ==
    IF x.k # "fin" \/ x.m = 0 THEN TRUE
    ELSE x.e >= -4 /\ x.e + BitLen(x.m) <= 30

\* format!("{:?}", f64): the shortest decimal that reads back as the same
\* double, always with a fractional part
FDebug(x) ==
    IF FIsNaN(x) THEN <<78, 97, 78>>
    ELSE (IF x.neg THEN <<ChMinus>> ELSE <<>>) \o
         (IF x.k = "inf" THEN <<105, 110, 102>>
          ELSE IF x.e >= 0 THEN NatDigits(x.m * 2^x.e) \o <<ChDot, Ch0>>
          ELSE LET q == 2^(-x.e)
               IN  NatDigits(x.m \div q) \o <<ChDot>> \o
                   FracDigits((x.m % q) * 5^(-x.e), -x.e))

\* the w-bit binary form of n, most significant bit first
RECURSIVE Bits(_, _)
Bits(n, w) == IF w = 0 THEN <<>> ELSE Bits(n \div 2, w - 1) \o <<n % 2>>

RECURSIVE ZeroBits(_)
ZeroBits(w) == IF w = 0 THEN <<>> ELSE <<0>> \o ZeroBits(w - 1)

RECURSIVE BitsValue(_)
BitsValue(bs) ==
    IF bs = <<>> THEN 0 ELSE 2 * BitsValue(SubSeq(bs, 1, Len(bs) - 1)) + bs[Len(bs)]

\* f64::to_bits: sign, 11 exponent bits, 52 fraction bits (normal numbers,
\* zeros, infinities, and f64::NAN = 0x7ff8000000000000)
FToBits(x) ==
    LET sign == <<IF x.neg THEN 1 ELSE 0>>
        top  == 2 * F64_EXP_BIAS + 1
        frac == F64_MANTISSA_DIGITS - 1
    IN  IF FIsNaN(x) THEN <<0>> \o Bits(top, 11) \o <<1>> \o ZeroBits(frac - 1)
        ELSE IF x.k = "inf" THEN sign \o Bits(top, 11) \o ZeroBits(frac)
        ELSE IF x.m = 0 THEN sign \o ZeroBits(11) \o ZeroBits(frac)
        ELSE LET bl == BitLen(x.m)
             IN  sign \o Bits(x.e + bl - 1 + F64_EXP_BIAS, 11)
                      \o Bits(x.m - 2^(bl - 1), bl - 1) \o ZeroBits(frac - (bl - 1))

\* f64::to_be_bytes
FToBeBytes(x) ==
    LET bs == FToBits(x)
    IN  [i \in 1..8 |-> BitsValue(SubSeq(bs, 8 * i - 7, 8 * i))]

(***************************************************************************)
(* OwnedValue, AggContext and Value.                                       *)
(***************************************************************************)
Null == [tag |-> "Null", val |-> <<>>]

Integer(i) == [tag |-> "Integer", val |-> i]

Float(f) == [tag |-> "Float", val |-> f]

Text(s) == [tag |-> "Text", val |-> s]

Blob(bs) == [tag |-> "Blob", val |-> bs]

Agg(g) == [tag |-> "Agg", val |-> g]

Record(vs) == [tag |-> "Record", val |-> vs]

\* AggContext: xs holds the variant's fields; the Option of Max and Min is
\* <<>> for None and <<v>> for Some(v).
Avg(acc, count) == [kind |-> "Avg", xs |-> <<acc, count>>]

Sum(acc) == [kind |-> "Sum", xs |-> <<acc>>]

Count(count) == [kind |-> "Count", xs |-> <<count>>]

Max(opt) == [kind |-> "Max", xs |-> opt]

Min(opt) == [kind |-> "Min", xs |-> opt]

GroupConcat(acc) == [kind |-> "GroupConcat", xs |-> <<acc>>]

None == <<>>

Some(v) == <<v>>

\* the abort of a panic!, todo!, unreachable!, unwrap or failed assert!
Panic == [tag |-> "panic", val |-> <<>>]

IsNumeric(v) == v.tag \in {"Integer", "Float"}

IsBytes(v) == v.tag \in {"Text", "Blob"}

\* AggContext::final_value
FinalValue(g) ==
    IF g.kind \in {"Max", "Min"}
    THEN (IF Len(g.xs) = 0 THEN Null ELSE g.xs[1])
    ELSE g.xs[1]

\* Vec<u8> / String partial_cmp: byte-wise lexicographic
BytesCmp(s, t) ==
    LET n == IF Len(s) < Len(t) THEN Len(s) ELSE Len(t)
        D == {i \in 1..n : s[i] # t[i]}
    IN  IF D = {}
        THEN (IF Len(s) < Len(t) THEN "Less"
              ELSE IF Len(s) > Len(t) THEN "Greater" ELSE "Equal")
        ELSE LET i == CHOOSE i \in D : \A j \in D : i <= j
             IN  IF s[i] < t[i] THEN "Less" ELSE "Greater"

\* <OwnedValue as PartialOrd>::partial_cmp and <AggContext as PartialOrd>::
\* partial_cmp.  "None" is Option::None; "panic" is the todo!() arm.
RECURSIVE PartialCmp(_, _)
RECURSIVE AggPartialCmp(_, _)
PartialCmp(x, y) ==
    IF x.tag = "Integer" /\ y.tag = "Integer" THEN ICmp(x.val, y.val)
    ELSE IF x.tag = "Integer" /\ y.tag = "Float" THEN FCmp(IAsF64(x.val), y.val)
    ELSE IF x.tag = "Float" /\ y.tag = "Integer" THEN FCmp(x.val, IAsF64(y.val))
    ELSE IF x.tag = "Float" /\ y.tag = "Float" THEN FCmp(x.val, y.val)
    ELSE IF IsNumeric(x) /\ IsBytes(y) THEN "Less"
    ELSE IF IsBytes(x) /\ IsNumeric(y) THEN "Greater"
    ELSE IF x.tag = "Text" /\ y.tag = "Text" THEN BytesCmp(x.val, y.val)
    ELSE IF x.tag = "Text" /\ y.tag = "Blob" THEN "Less"
    ELSE IF x.tag = "Blob" /\ y.tag = "Text" THEN "Greater"
    ELSE IF x.tag = "Blob" /\ y.tag = "Blob" THEN BytesCmp(x.val, y.val)
    ELSE IF x.tag = "Null" /\ y.tag = "Null" THEN "Equal"
    ELSE IF x.tag = "Null" THEN "Less"
    ELSE IF y.tag = "Null" THEN "Greater"
    ELSE IF x.tag = "Agg" /\ y.tag = "Agg" THEN AggPartialCmp(x.val, y.val)
    ELSE IF x.tag = "Agg" THEN PartialCmp(FinalValue(x.val), y)
    ELSE IF y.tag = "Agg" THEN PartialCmp(x, FinalValue(y.val))
    ELSE "panic"

AggPartialCmp(g, h) ==
    IF g.kind # h.kind THEN "None"
    ELSE IF g.kind \in {"Max", "Min"}
    THEN (IF Len(g.xs) = 0 /\ Len(h.xs) = 0 THEN "Equal"
          ELSE IF Len(g.xs) = 0 THEN "Less"
          ELSE IF Len(h.xs) = 0 THEN "Greater"
          ELSE PartialCmp(g.xs[1], h.xs[1]))
    ELSE PartialCmp(g.xs[1], h.xs[1])

\* <OwnedValue as Ord>::cmp: partial_cmp(..).unwrap()
Cmp(x, y) ==
    LET r == PartialCmp(x, y) IN IF r = "None" THEN "panic" ELSE r

\* the derived PartialEq of OwnedValue, AggContext and OwnedRecord
RECURSIVE ValueEq(_, _)
RECURSIVE SeqEq(_, _)
ValueEq(x, y) ==
    IF x.tag # y.tag THEN FALSE
    ELSE IF x.tag = "Float" THEN FEq(x.val, y.val)
    ELSE IF x.tag = "Agg"
    THEN x.val.kind = y.val.kind /\ SeqEq(x.val.xs, y.val.xs)
    ELSE IF x.tag = "Record" THEN SeqEq(x.val, y.val)
    ELSE x.val = y.val

SeqEq(xs, ys) ==
    /\ Len(xs) = Len(ys)
    /\ \A i \in 1..Len(xs) : ValueEq(xs[i], ys[i])

\* <OwnedValue as Display>::to_string for the numbers `+` renders
FloatToString(f) == FDebug(f)

\* <OwnedValue as Add>::add.  oc: the build checks arithmetic overflow (it
\* panics on it); otherwise i64 addition wraps.
Add(x, y, oc) ==
    IF x.tag = "Integer" /\ y.tag = "Integer"
    THEN (IF oc /\ IAddOverflows(x.val, y.val) THEN Panic
          ELSE Integer(UAdd(x.val, y.val)))
    ELSE IF x.tag = "Integer" /\ y.tag = "Float" THEN Float(FAdd(IAsF64(x.val), y.val))
    ELSE IF x.tag = "Float" /\ y.tag = "Integer" THEN Float(FAdd(x.val, IAsF64(y.val)))
    ELSE IF x.tag = "Float" /\ y.tag = "Float" THEN Float(FAdd(x.val, y.val))
    ELSE IF x.tag = "Text" /\ y.tag = "Text" THEN Text(x.val \o y.val)
    ELSE IF x.tag = "Text" /\ y.tag = "Integer" THEN Text(x.val \o IToString(y.val))
    ELSE IF x.tag = "Integer" /\ y.tag = "Text" THEN Text(IToString(x.val) \o y.val)
    ELSE IF x.tag = "Text" /\ y.tag = "Float" THEN Text(x.val \o FloatToString(y.val))
    ELSE IF x.tag = "Float" /\ y.tag = "Text" THEN Text(FloatToString(x.val) \o y.val)
    ELSE IF y.tag = "Null" THEN x
    ELSE IF x.tag = "Null" THEN y
    ELSE Float(FZero(FALSE))

\* <OwnedValue as Div>::div
Div(x, y) ==
    IF x.tag = "Integer" /\ y.tag = "Integer"
    THEN (IF IDivPanics(x.val, y.val) THEN Panic ELSE Integer(IDiv(x.val, y.val)))
    ELSE IF x.tag = "Integer" /\ y.tag = "Float" THEN Float(FDiv(IAsF64(x.val), y.val))
    ELSE IF x.tag = "Float" /\ y.tag = "Integer" THEN Float(FDiv(x.val, IAsF64(y.val)))
    ELSE IF x.tag = "Float" /\ y.tag = "Float" THEN Float(FDiv(x.val, y.val))
    ELSE Float(FZero(FALSE))

\* Value, the borrowed view
VNull == [vtag |-> "Null", vval |-> <<>>]

VInteger(i) == [vtag |-> "Integer", vval |-> i]

VFloat(f) == [vtag |-> "Float", vval |-> f]

VText(s) == [vtag |-> "Text", vval |-> s]

VBlob(bs) == [vtag |-> "Blob", vval |-> bs]

VPanic == [vtag |-> "panic", vval |-> <<>>]

\* to_value
RECURSIVE ToValue(_)
ToValue(v) ==
    IF v.tag = "Null" THEN VNull
    ELSE IF v.tag = "Integer" THEN VInteger(v.val)
    ELSE IF v.tag = "Float" THEN VFloat(v.val)
    ELSE IF v.tag = "Text" THEN VText(v.val)
    ELSE IF v.tag = "Blob" THEN VBlob(v.val)
    ELSE IF v.tag = "Agg"
    THEN LET g == v.val
         IN  IF g.kind \in {"Avg", "Sum"}
             THEN (IF g.xs[1].tag = "Integer" THEN VInteger(g.xs[1].val)
                   ELSE IF g.xs[1].tag = "Float" THEN VFloat(g.xs[1].val)
                   ELSE VFloat(FZero(FALSE)))
             ELSE IF g.kind \in {"Max", "Min"}
             THEN (IF Len(g.xs) = 0 THEN VNull ELSE ToValue(g.xs[1]))
             ELSE ToValue(g.xs[1])
    ELSE VPanic

(***************************************************************************)
(* The value specification: two operands drawn from sample values, and the *)
(* operations of OwnedValue applied to them.                               *)
(***************************************************************************)
MaxChain == 1

TwoTo53 == <<2^(F64_MANTISSA_DIGITS - 48), 0, 0, 0>>

IntSamples ==
    <<I64_MIN, I64(-1), I64(0), I64(1), I64(3), I64_MAX, TwoTo53, UAdd(TwoTo53, UOne)>>

FloatSamples ==
    <<FNaN, FInf(FALSE), FZero(FALSE), FZero(TRUE), F(3, 1), F(3, 0), F(-1, 0),
      FNorm(FALSE, 1, F64_MANTISSA_DIGITS)>>

\* "", "a", "ab"
TextSamples == << <<>>, <<97>>, <<97, 98>> >>

BlobSamples == << <<>>, <<1>>, <<97>> >>

AggSamples ==
    <<Max(None), Min(None), Max(Some(Integer(I64(3)))), Min(Some(Float(F(3, 0)))),
      Sum(Null), Sum(Integer(I64(3))), Sum(Text(<<97>>)),
      Avg(Null, Integer(I64(0))), Avg(Float(F(3, 1)), Integer(I64(1))),
      Count(Integer(I64(1))), GroupConcat(Text(<<97>>))>>

RecordSamples == << <<>>, <<Integer(I64(1))>> >>

Map(f(_), xs) == [i \in 1..Len(xs) |-> f(xs[i])]

ScalarSamples ==
    <<Null>> \o Map(Integer, IntSamples) \o Map(Float, FloatSamples)
             \o Map(Text, TextSamples) \o Map(Blob, BlobSamples)

ValueSamples ==
    ScalarSamples \o Map(Agg, AggSamples) \o Map(Record, RecordSamples)

\* every number inside v is one the model holds
RECURSIVE ValueHeld(_)
ValueHeld(v) ==
    IF v.tag = "Integer" THEN IAsF64Held(v.val)
    ELSE IF v.tag = "Float" THEN FHeld(v.val)
    ELSE IF v.tag = "Agg" THEN \A i \in 1..Len(v.val.xs) : ValueHeld(v.val.xs[i])
    ELSE IF v.tag = "Record" THEN \A i \in 1..Len(v.val) : ValueHeld(v.val[i])
    ELSE TRUE

\* the double arithmetic x + y or x / y performs is exact, and the double
\* x + y renders is one whose rendering is modelled
ArithHeld(op, x, y) ==
    IF IsNumeric(x) /\ IsNumeric(y) /\ (x.tag = "Float" \/ y.tag = "Float")
    THEN LET fx == IF x.tag = "Float" THEN x.val ELSE IAsF64(x.val)
             fy == IF y.tag = "Float" THEN y.val ELSE IAsF64(y.val)
         IN  IF op = "add" THEN FAddHeld(fx, fy) ELSE FDivHeld(fx, fy)
    ELSE IF op = "add" /\ x.tag = "Text" /\ y.tag = "Float" THEN FDebugHeld(y.val)
    ELSE IF op = "add" /\ x.tag = "Float" /\ y.tag = "Text" THEN FDebugHeld(x.val)
    ELSE TRUE

NoOut == [op |-> "none", x |-> Null, y |-> Null, res |-> Null]

InitRecordIdle ==
    /\ rec = <<>> /\ buf = <<>> /\ ser = "idle" /\ init_buf = <<>>

\* no operation pending
NoOp == [op |-> "none", key |-> 0, sop |-> "EQ", moved |-> FALSE]

\* no CursorResult returned yet
NoRet == [tag |-> "none", val |-> TRUE]

InitCursorIdle ==
    /\ tree = <<>> /\ cached = {} /\ pos = 0 /\ pending = NoOp
    /\ retries = 0 /\ ret = NoRet /\ start = [tree |-> <<>>, pos |-> 0]
    /\ inflight = {} /\ calls = 0

recordVars == <<rec, buf, ser, init_buf>>

cursorVars == <<tree, cached, pos, pending, retries, ret, start, inflight, calls>>

valueVars == <<a, b, out, chain>>

InitValue ==
    /\ \E i \in 1..Len(ValueSamples) : a = ValueSamples[i]
    /\ \E j \in 1..Len(ValueSamples) : b = ValueSamples[j]
    /\ out = NoOut
    /\ chain = 0
    /\ InitRecordIdle
    /\ InitCursorIdle

Ran(op, res) ==
    /\ out' = [op |-> op, x |-> a, y |-> b, res |-> res]
    /\ UNCHANGED <<recordVars, cursorVars>>

\* a.partial_cmp(&b)
DoPartialCmp ==
    /\ Ran("partial_cmp", PartialCmp(a, b))
    /\ UNCHANGED <<a, b, chain>>

\* a.cmp(&b)
DoCmp ==
    /\ Ran("cmp", Cmp(a, b))
    /\ UNCHANGED <<a, b, chain>>

\* a == b
DoEq ==
    /\ Ran("eq", ValueEq(a, b))
    /\ UNCHANGED <<a, b, chain>>

\* a + b
DoAdd ==
    /\ ArithHeld("add", a, b)
    /\ \E oc \in BOOLEAN : Ran("add", Add(a, b, oc))
    /\ UNCHANGED <<a, b, chain>>

\* a / b
DoDiv ==
    /\ ArithHeld("div", a, b)
    /\ Ran("div", Div(a, b))
    /\ UNCHANGED <<a, b, chain>>

\* to_value(&a)
DoToValue ==
    /\ Ran("to_value", ToValue(a))
    /\ UNCHANGED <<a, b, chain>>

\* a += b: *self = self.clone() + rhs
DoAddAssign ==
    /\ chain < MaxChain
    /\ ArithHeld("add", a, b)
    /\ \E oc \in BOOLEAN :
          LET r == Add(a, b, oc)
          IN  /\ Ran("add_assign", r)
              /\ r.tag # "panic"
              /\ ValueHeld(r)
              /\ a' = r
    /\ chain' = chain + 1
    /\ UNCHANGED b

\* a /= b: *self = self.clone() / rhs
DoDivAssign ==
    /\ chain < MaxChain
    /\ ArithHeld("div", a, b)
    /\ LET r == Div(a, b)
       IN  /\ Ran("div_assign", r)
           /\ r.tag # "panic"
           /\ ValueHeld(r)
           /\ a' = r
    /\ chain' = chain + 1
    /\ UNCHANGED b

NextValue ==
    \/ DoPartialCmp
    \/ DoCmp
    \/ DoEq
    \/ DoAdd
    \/ DoDiv
    \/ DoToValue
    \/ DoAddAssign
    \/ DoDivAssign

SpecValue == InitValue /\ [][NextValue]_vars

(***************************************************************************)
(* Reference notions the claims about values are stated with.              *)
(***************************************************************************)
IsOrdering(r) == r \in {"Less", "Equal", "Greater"}

Reverse(r) == IF r = "Less" THEN "Greater" ELSE IF r = "Greater" THEN "Less" ELSE r

IsScalar(v) == v.tag \in {"Null", "Integer", "Float", "Text", "Blob"}

TypeRank(v) ==
    IF v.tag = "Null" THEN 0 ELSE IF IsNumeric(v) THEN 1 ELSE IF v.tag = "Text" THEN 2 ELSE 3

\* byte-wise lexicographic order, by the first bytes and then the rests
RECURSIVE RefLex(_, _)
RefLex(s, t) ==
    IF Len(s) = 0 THEN (IF Len(t) = 0 THEN "Equal" ELSE "Less")
    ELSE IF Len(t) = 0 THEN "Greater"
    ELSE IF s[1] < t[1] THEN "Less"
    ELSE IF s[1] > t[1] THEN "Greater"
    ELSE RefLex(Tail(s), Tail(t))

\* x < y as integers: with the sign bit flipped, the unsigned order
RefIntLess(x, y) ==
    LET flip(v) == <<(v[1] + LimbBase \div 2) % LimbBase, v[2], v[3], v[4]>>
    IN  ULess(flip(x), flip(y))

AsDouble(v) == IF v.tag = "Float" THEN v.val ELSE IAsF64(v.val)

RefNumeric(x, y) ==
    IF x.tag = "Integer" /\ y.tag = "Integer"
    THEN (IF RefIntLess(x.val, y.val) THEN "Less"
          ELSE IF RefIntLess(y.val, x.val) THEN "Greater" ELSE "Equal")
    ELSE FCmp(AsDouble(x), AsDouble(y))

RefOrder(x, y) ==
    IF TypeRank(x) < TypeRank(y) THEN "Less"
    ELSE IF TypeRank(x) > TypeRank(y) THEN "Greater"
    ELSE IF x.tag = "Null" THEN "Equal"
    ELSE IF IsNumeric(x) THEN RefNumeric(x, y)
    ELSE RefLex(x.val, y.val)

\* s = x + y as integers: s - x = y modulo 2^64, and s lies on the side of x
\* that the sign of y says
IsIntegerSum(s, x, y) ==
    /\ USub(s, x) = y
    /\ UIsZero(y) => s = x
    /\ (~INeg(y) /\ ~UIsZero(y)) => RefIntLess(x, s)
    /\ INeg(y) => RefIntLess(s, x)

\* x * k for 0 <= k < 2^15
UMulSmall(x, k) ==
    LET p4 == x[4] * k
        p3 == x[3] * k + (p4 \div LimbBase)
        p2 == x[2] * k + (p3 \div LimbBase)
        p1 == x[1] * k + (p2 \div LimbBase)
    IN  [prod |-> <<p1 % LimbBase, p2 % LimbBase, p3 % LimbBase, p4 % LimbBase>>,
         carry |-> p1 \div LimbBase]

USmall(x) == x[1] = 0 /\ x[2] = 0 /\ x[3] = 0 /\ x[4] < LimbBase \div 2

\* q = n / d truncated toward zero: |q| * |d| <= |n| < (|q| + 1) * |d|, and q
\* is negative only when exactly one of n, d is (one of |q|, |d| is below 2^15
\* for every pair of the samples)
IsTruncQuotient(q, n, d) ==
    LET aq == IAbs(q)
        an == IAbs(n)
        ad == IAbs(d)
        p  == IF USmall(aq) THEN UMulSmall(ad, aq[4]) ELSE UMulSmall(aq, ad[4])
    IN  /\ USmall(aq) \/ USmall(ad)
        /\ p.carry = 0
        /\ ULeq(p.prod, an)
        /\ ULess(USub(an, p.prod), ad)
        /\ UIsZero(q) \/ (INeg(q) <=> (INeg(n) # INeg(d)))

Render(v) == IF v.tag = "Integer" THEN IToString(v.val) ELSE FDebug(v.val)

\* the addition table of the specification
AddTable(x, y, r) ==
    IF x.tag = "Integer" /\ y.tag = "Integer"
    THEN r.tag = "Integer" /\ IsIntegerSum(r.val, x.val, y.val)
    ELSE IF IsNumeric(x) /\ IsNumeric(y) THEN r = Float(FAdd(AsDouble(x), AsDouble(y)))
    ELSE IF x.tag = "Text" /\ y.tag = "Text" THEN r = Text(x.val \o y.val)
    ELSE IF x.tag = "Text" /\ IsNumeric(y) THEN r = Text(x.val \o Render(y))
    ELSE IF IsNumeric(x) /\ y.tag = "Text" THEN r = Text(Render(x) \o y.val)
    ELSE IF y.tag = "Null" THEN r = x
    ELSE IF x.tag = "Null" THEN r = y
    ELSE r = Float(FZero(FALSE))

\* the division rules of the specification (they say nothing of an Agg or a
\* Record against a number)
DivRules(x, y, r) ==
    IF x.tag = "Integer" /\ y.tag = "Integer"
    THEN (IF UIsZero(y.val) THEN r = Panic
          ELSE r.tag = "Integer" /\ IsTruncQuotient(r.val, x.val, y.val))
    ELSE IF IsNumeric(x) /\ IsNumeric(y) THEN r = Float(FDiv(AsDouble(x), AsDouble(y)))
    ELSE IF x.tag \in {"Text", "Blob", "Null"} \/ y.tag \in {"Text", "Blob", "Null"}
    THEN r = Float(FZero(FALSE))
    ELSE TRUE

NonAggSamples == ScalarSamples \o Map(Record, RecordSamples)

Leq(x, y) == Cmp(x, y) \in {"Less", "Equal"}

(***************************************************************************)
(* Claims about OwnedValue, checked under SpecValue.                       *)
(***************************************************************************)

\* C1: for every pair of Null, Integer, Float, Text and Blob values, a.cmp(b)
\* returns the reference order: the type classes rank Null < numeric < Text <
\* Blob, numbers compare numerically (an Integer promoted to a double against
\* a Float), Texts and Blobs compare byte-wise.
C1_CmpIsReferenceOrder ==
    (out.op = "cmp" /\ IsScalar(out.x) /\ IsScalar(out.y))
        => (IsOrdering(out.res) /\ out.res = RefOrder(out.x, out.y))

\* C2: over the values that are not Agg, cmp is a total order: it returns an
\* ordering, a.cmp(b) is the reverse of b.cmp(a), and <= is transitive.
C2_TotalOrderNonAgg ==
    (out.op = "cmp" /\ out.x.tag # "Agg" /\ out.y.tag # "Agg")
        => /\ IsOrdering(out.res)
           /\ Cmp(out.y, out.x) = Reverse(out.res)
           /\ \A k \in 1..Len(NonAggSamples) :
                 (Leq(out.x, out.y) /\ Leq(out.y, NonAggSamples[k]))
                     => Leq(out.x, NonAggSamples[k])

\* C3: an Agg compared with a value that is not an Agg gives what its
\* final_value() compared with that value gives, on either side, wherever
\* that comparison is defined.
C3_AggComparesAsFinalValue ==
    /\ (out.op = "partial_cmp" /\ out.x.tag = "Agg" /\ out.y.tag # "Agg"
            /\ PartialCmp(FinalValue(out.x.val), out.y) # "panic")
        => out.res = PartialCmp(FinalValue(out.x.val), out.y)
    /\ (out.op = "partial_cmp" /\ out.x.tag # "Agg" /\ out.y.tag = "Agg"
            /\ PartialCmp(out.x, FinalValue(out.y.val)) # "panic")
        => out.res = PartialCmp(out.x, FinalValue(out.y.val))

\* C4: a + b is what the addition table says, for every pair of operands.
C4_AddFollowsTable ==
    out.op = "add" => AddTable(out.x, out.y, out.res)

\* C5: a / b is what the division rules say: the truncated quotient for
\* Integer / Integer with a non-zero divisor, an abort for a zero divisor, the
\* double quotient when a Float is involved, Float(0.0) when either operand is
\* Text, Blob or Null.
C5_DivFollowsRules ==
    out.op = "div" => DivRules(out.x, out.y, out.res)

\* C9: wherever a.cmp(b) is defined, a == b holds exactly when a.cmp(b) is
\* Equal.
C9_EqAgreesWithCmp ==
    (out.op = "cmp" /\ out.res # "panic")
        => (ValueEq(out.x, out.y) <=> out.res = "Equal")

\* C10: the borrowed view of an Agg whose final value is not a Record is the
\* borrowed view of that final value.
C10_ToValueOfAggIsFinalValue ==
    (out.op = "to_value" /\ out.x.tag = "Agg" /\ FinalValue(out.x.val).tag # "Record")
        => out.res = ToValue(FinalValue(out.x.val))

(***************************************************************************)
(* OwnedRecord::serialize.                                                 *)
(***************************************************************************)

\* write_varint of storage::sqlite3_ondisk: the bytes written for v, most
\* significant 7-bit group first, the high bit set on every byte but the last
\* (values below 2^31, which take at most five bytes)
RECURSIVE VarintGroups(_)
VarintGroups(v) ==
    IF v < 128 THEN <<>> ELSE VarintGroups(v \div 128) \o <<128 + ((v \div 128) % 128)>>

WriteVarint(v) == VarintGroups(v) \o <<v % 128>>

\* the scratch space serialize reserves for one varint
VarintSpace == 9

\* the largest count of serial-type bytes of the common case (line 379)
CommonHeaderMax == 126

\* the largest header_size the assertion lets through (line 388)
AssertHeaderMax == 126

Zeros(n) == [i \in 1..n |-> 0]

\* the serial type of a storable value; Agg and Record have none
\* a serial-type rule with the Text and Blob offsets exchanged
SerialTypeSwapped(v) ==
    IF v.tag = "Null" THEN 0
    ELSE IF v.tag = "Integer" THEN 6
    ELSE IF v.tag = "Float" THEN 7
    ELSE IF v.tag = "Text" THEN Len(v.val) * 2 + 12
    ELSE Len(v.val) * 2 + 13

SerialType(v) ==
    IF v.tag = "Null" THEN 0
    ELSE IF v.tag = "Integer" THEN 6
    ELSE IF v.tag = "Float" THEN 7
    ELSE IF v.tag = "Text" THEN Len(v.val) * 2 + 13
    ELSE Len(v.val) * 2 + 12

Serializable(v) == v.tag \in {"Null", "Integer", "Float", "Text", "Blob"}

\* buf.resize(len + 9, 0); n = write_varint(&mut buf[len - 9..], v);
\* buf.truncate(len - 9 + n)
PushVarint(bs, v) ==
    LET grown == bs \o Zeros(VarintSpace)
        len   == Len(grown)
        enc   == WriteVarint(v)
        n     == Len(enc)
        wrote == [i \in 1..len |->
                    IF i > len - VarintSpace /\ i <= len - VarintSpace + n
                    THEN enc[i - (len - VarintSpace)] ELSE grown[i]]
    IN  SubSeq(wrote, 1, len - VarintSpace + n)

\* the concatenation of bss[lo..hi], by halves
RECURSIVE Concat(_, _, _)
Concat(bss, lo, hi) ==
    IF lo > hi THEN <<>>
    ELSE IF lo = hi THEN bss[lo]
    ELSE LET mid == (lo + hi) \div 2
         IN  Concat(bss, lo, mid) \o Concat(bss, mid + 1, hi)

\* the first loop: one serial type after the other is pushed onto buf; the
\* loop aborts (unreachable!) at the first value that has none
WriteTypes(vs, bs) ==
    LET bad   == {i \in 1..Len(vs) : ~Serializable(vs[i])}
        stop  == IF bad = {} THEN Len(vs) + 1 ELSE CHOOSE i \in bad : \A j \in bad : i <= j
        bytes == [i \in 1..(stop - 1) |-> PushVarint(<<>>, SerialType(vs[i]))]
    IN  [ok |-> bad = {}, buf |-> bs \o Concat(bytes, 1, stop - 1)]

\* the payload of one value
Payload(v) ==
    IF v.tag = "Null" THEN <<>>
    ELSE IF v.tag = "Integer" THEN IToBeBytes(v.val)
    ELSE IF v.tag = "Float" THEN FToBeBytes(v.val)
    ELSE v.val

\* the second loop: the content of every value is appended to buf
WriteContent(vs, bs) ==
    bs \o Concat([i \in 1..Len(vs) |-> Payload(vs[i])], 1, Len(vs))

\* buf.splice(at..at, bytes), at counted from 0
Splice(bs, at, bytes) == SubSeq(bs, 1, at) \o bytes \o SubSeq(bs, at + 1, Len(bs))

\* a header-size step without the final assertion
HeaderSizeUnasserted(type_bytes) ==
    IF type_bytes <= CommonHeaderMax THEN type_bytes + 1 ELSE -1

\* the header-size step: Panic for the todo!() of the big-header case and
\* for the failed assertion, else the header size to write
HeaderSize(type_bytes) ==
    IF type_bytes <= CommonHeaderMax
    THEN (IF type_bytes + 1 <= AssertHeaderMax THEN type_bytes + 1 ELSE -1)
    ELSE -1

\* OwnedRecord::serialize(&self, buf): what it leaves in buf, and whether it
\* returned ("done") or aborted ("abort")
Serialize(vs, bs) ==
    LET initial_i == Len(bs)
        types     == WriteTypes(vs, bs)
    IN  IF ~types.ok THEN [status |-> "abort", buf |-> types.buf]
        ELSE LET content     == WriteContent(vs, types.buf)
                 header_size == HeaderSize(Len(types.buf) - initial_i)
                 header      == SubSeq(PushVarint(<<>>, header_size), 1,
                                       Len(WriteVarint(header_size)))
             IN  IF header_size < 0 THEN [status |-> "abort", buf |-> content]
                 ELSE [status |-> "done", buf |-> Splice(content, initial_i, header)]

(***************************************************************************)
(* The record specification: rows drawn from sample columns, short rows    *)
(* and rows whose serial types fill the header up to its limit, serialized *)
(* into an empty buffer and then once more into the buffer just written.   *)
(***************************************************************************)
MaxExtra == 2

MaxPadGap == 3

\* the row of the specification's round-trip example
ExampleRow ==
    <<Null, Integer(I64(42)), Float(F(3, 1)), Text(<<104, 105>>), Blob(<<1, 2, 3>>)>>

ColumnSamples ==
    {Null, Integer(I64(42)), Integer(I64_MIN), Float(F(3, 1)), Text(<<104, 105>>),
     Blob(<<1, 2, 3>>), Agg(Sum(Null))}

\* a text long enough for a two-byte serial type
LongText == Text([i \in 1..58 |-> 120])

PadSamples == <<Null, Integer(I64(-2)), LongText>>

Repeat(v, n) == [i \in 1..n |-> v]

\* rows of one repeated column whose serial types take CommonHeaderMax - gap
\* bytes, or one byte less where that is odd for a two-byte type
PadRows ==
    {Repeat(PadSamples[p],
            (CommonHeaderMax - gap) \div Len(WriteVarint(SerialType(PadSamples[p])))) :
        p \in 1..Len(PadSamples), gap \in 0..MaxPadGap}

Tails == UNION {[1..n -> ColumnSamples] : n \in 0..MaxExtra}

InitValueIdle == a = Null /\ b = Null /\ out = NoOut /\ chain = 0

InitRecord ==
    /\ \E base \in {<<>>, ExampleRow} \cup PadRows : \E tail \in Tails : rec = base \o tail
    /\ buf = <<>>
    /\ ser = "idle"
    /\ init_buf = <<>>
    /\ InitValueIdle
    /\ InitCursorIdle

\* record.serialize(&mut buf)
DoSerialize ==
    /\ ser = "idle"
    /\ LET r == Serialize(rec, buf)
       IN  buf' = r.buf /\ ser' = r.status
    /\ init_buf' = buf
    /\ UNCHANGED <<rec, valueVars, cursorVars>>

\* the caller goes on to serialize into the buffer that holds a record
DoReuse ==
    /\ ser = "done"
    /\ init_buf = <<>>
    /\ ser' = "idle"
    /\ UNCHANGED <<rec, buf, init_buf, valueVars, cursorVars>>

NextRecord == DoSerialize \/ DoReuse

SpecRecord == InitRecord /\ [][NextRecord]_vars

(***************************************************************************)
(* Reference notions the claims about records are stated with.             *)
(***************************************************************************)
HeaderLimit == 126

StorableRow(vs) == \A i \in 1..Len(vs) : Serializable(vs[i])

RefSerialType(v) ==
    CASE v.tag = "Null" -> 0
      [] v.tag = "Integer" -> 6
      [] v.tag = "Float" -> 7
      [] v.tag = "Text" -> 2 * Len(v.val) + 13
      [] v.tag = "Blob" -> 2 * Len(v.val) + 12

RefTypes(vs) == Concat([i \in 1..Len(vs) |-> WriteVarint(RefSerialType(vs[i]))], 1, Len(vs))

\* the bytes of a string of bits, first bits first
BigEndian(bits) ==
    [i \in 1..(Len(bits) \div 8) |-> BitsValue(SubSeq(bits, 8 * i - 7, 8 * i))]

\* the 64 bits of an i64, most significant first
IntBits(x) == Bits(x[1], 16) \o Bits(x[2], 16) \o Bits(x[3], 16) \o Bits(x[4], 16)

RefPayload(v) ==
    CASE v.tag = "Null" -> <<>>
      [] v.tag = "Integer" -> BigEndian(IntBits(v.val))
      [] v.tag = "Float" -> BigEndian(FToBits(v.val))
      [] v.tag \in {"Text", "Blob"} -> v.val

RefPayloads(vs) == Concat([i \in 1..Len(vs) |-> RefPayload(vs[i])], 1, Len(vs))

RefPayloadLen(v) ==
    CASE v.tag = "Null" -> 0
      [] v.tag \in {"Integer", "Float"} -> 8
      [] v.tag \in {"Text", "Blob"} -> Len(v.val)

RECURSIVE SumRange(_, _, _)
SumRange(ns, lo, hi) ==
    IF lo > hi THEN 0
    ELSE IF lo = hi THEN ns[lo]
    ELSE SumRange(ns, lo, (lo + hi) \div 2) + SumRange(ns, (lo + hi) \div 2 + 1, hi)

RefHeaderSize(vs) == Len(RefTypes(vs)) + 1

(***************************************************************************)
(* Claims about OwnedRecord::serialize, checked under SpecRecord.          *)
(***************************************************************************)

\* C6: for a row of Null, Integer, Float, Text and Blob columns whose header
\* fits the limit, serialize appends to the buffer exactly the header-size
\* varint, the serial-type varints in column order and the payloads in column
\* order; header_size is the count of serial-type bytes plus one, and the
\* bytes written number header_size plus the payload lengths.
C6_SerializeLayout ==
    (ser # "idle" /\ StorableRow(rec) /\ RefHeaderSize(rec) <= HeaderLimit)
        => /\ ser = "done"
           /\ buf = init_buf \o WriteVarint(RefHeaderSize(rec))
                             \o RefTypes(rec) \o RefPayloads(rec)
           /\ Len(buf) - Len(init_buf) =
                 RefHeaderSize(rec)
                 + SumRange([i \in 1..Len(rec) |-> RefPayloadLen(rec[i])], 1, Len(rec))

\* C6 witness: the example row [Null, 42, 1.5, "hi", [1,2,3]] was serialized
\* to header size 6, serial types 0 6 7 17 18 and the four payloads.
C6_Witness ==
    /\ ser = "done"
    /\ rec = ExampleRow
    /\ buf = <<6, 0, 6, 7, 17, 18, 0, 0, 0, 0, 0, 0, 0, 42,
               63, 248, 0, 0, 0, 0, 0, 0, 104, 105, 1, 2, 3>>

\* the columns serialize gets through before one without a serial type
StorablePrefix(vs) ==
    LET bad == {i \in 1..Len(vs) : ~Serializable(vs[i])}
    IN  IF bad = {} THEN vs ELSE SubSeq(vs, 1, (CHOOSE i \in bad : \A j \in bad : i <= j) - 1)

\* C7 as stated, for every row: serialize returns exactly when the bytes of
\* serial-type varints written plus one are at most 126, and then the
\* header-size prefix is one byte.
C7_CompletesExactlyWithinLimit ==
    ser # "idle"
        => /\ ser = "done" <=> RefHeaderSize(StorablePrefix(rec)) <= HeaderLimit
           /\ ser = "done" => buf[Len(init_buf) + 1] < 128

\* C7 (amended): for a row whose columns are all Null, Integer, Float, Text
\* or Blob, serialize returns exactly when header_size (serial-type bytes
\* plus one) is at most 126 and aborts otherwise; when it returns, the
\* header-size prefix is one byte and the serial types follow it whole.
C7_HeaderBoundary ==
    (ser # "idle" /\ StorableRow(rec))
        => /\ ser = "done" <=> RefHeaderSize(rec) <= HeaderLimit
           /\ ser = "done" =>
                 /\ buf[Len(init_buf) + 1] = RefHeaderSize(rec)
                 /\ buf[Len(init_buf) + 1] < 128
                 /\ SubSeq(buf, Len(init_buf) + 2, Len(init_buf) + RefHeaderSize(rec))
                       = RefTypes(rec)

\* C7 witness: a row of storable columns whose header size is 127, one over
\* the limit, made serialize abort.
C7_Witness ==
    /\ ser = "abort"
    /\ StorableRow(rec)
    /\ RefHeaderSize(rec) = HeaderLimit + 1

(***************************************************************************)
(* The cursor specification.  Cursor is a trait: the table it walks is a   *)
(* sorted sequence of row ids laid out on leaf pages under one root page,  *)
(* an operation that needs a page the cache lacks asks the store for it    *)
(* and returns CursorResult::IO, and the caller polls by calling again.    *)
(***************************************************************************)
MaxKey == 3

MaxRetries == 2

MaxCalls == 2

Keys == 1..MaxKey

LeafCap == 2

RootPage == 0

\* the leaf page that holds the i-th row
LeafOf(i) == (i - 1) \div LeafCap + 1

\* the keys of a set in ascending order
SetToSeq(S) ==
    CHOOSE t \in [1..Cardinality(S) -> S] : \A i, j \in 1..Cardinality(S) : i < j => t[i] < t[j]

CursorResultOk(v) == [tag |-> "Ok", val |-> v]

CursorResultIO == [tag |-> "IO", val |-> TRUE]

SeekOps == {"EQ", "GE", "GT"}

Op(o, k, s, m) == [op |-> o, key |-> k, sop |-> s, moved |-> m]

\* walk the rows from the i-th: the index of the first key not below k, or
\* one past the last row
RECURSIVE LowerBound(_, _, _)
LowerBound(t, k, i) ==
    IF i > Len(t) THEN i
    ELSE IF t[i] >= k THEN i
    ELSE LowerBound(t, k, i + 1)

\* the row seek(key, op) stops on, 0 for none
SeekIndex(t, k, sop) ==
    LET lb  == LowerBound(t, k, 1)
        hit == IF lb <= Len(t) THEN t[lb] = k ELSE FALSE
    IN  IF sop = "EQ" THEN (IF hit THEN lb ELSE 0)
        ELSE IF sop = "GE" THEN (IF lb <= Len(t) THEN lb ELSE 0)
        ELSE LET g == IF hit THEN lb + 1 ELSE lb
             IN  IF g <= Len(t) THEN g ELSE 0

\* the leaf a descent for key k ends on
ProbeLeaf(t, k) ==
    IF t = <<>> THEN <<>>
    ELSE LET lb == LowerBound(t, k, 1)
         IN  <<LeafOf(IF lb <= Len(t) THEN lb ELSE Len(t))>>

\* the pages operation p reads, in the order it reads them
Pages(p, t, ps) ==
    IF p.op = "rewind" THEN <<RootPage>> \o (IF t = <<>> THEN <<>> ELSE <<LeafOf(1)>>)
    ELSE IF p.op \in {"last", "seek_to_last"}
         THEN <<RootPage>> \o (IF t = <<>> THEN <<>> ELSE <<LeafOf(Len(t))>>)
    ELSE IF p.op = "next"
         THEN (IF ps >= 1 /\ ps < Len(t) THEN <<LeafOf(ps + 1)>> ELSE <<>>)
    ELSE IF p.op = "prev" THEN (IF ps >= 2 THEN <<LeafOf(ps - 1)>> ELSE <<>>)
    ELSE IF p.op \in {"seek", "exists"} THEN <<RootPage>> \o ProbeLeaf(t, p.key)
    ELSE (IF p.moved THEN <<>> ELSE <<RootPage>>) \o ProbeLeaf(t, p.key)

\* insert(key, ..): the rows with key put in its place
InsertKey(t, k) ==
    LET lb == LowerBound(t, k, 1)
    IN  IF lb <= Len(t) /\ t[lb] = k THEN t
        ELSE SubSeq(t, 1, lb - 1) \o <<k>> \o SubSeq(t, lb, Len(t))

\* what operation p leaves once every page it reads is there
Outcome(p, t, ps) ==
    IF p.op = "rewind"
    THEN [tree |-> t, pos |-> IF t = <<>> THEN 0 ELSE 1, val |-> TRUE]
    ELSE IF p.op \in {"last", "seek_to_last"} THEN [tree |-> t, pos |-> Len(t), val |-> TRUE]
    ELSE IF p.op = "next"
         THEN [tree |-> t, pos |-> IF ps >= 1 /\ ps < Len(t) THEN ps + 1 ELSE 0, val |-> TRUE]
    ELSE IF p.op = "prev"
         THEN [tree |-> t, pos |-> IF ps >= 2 THEN ps - 1 ELSE 0, val |-> TRUE]
    ELSE IF p.op = "seek"
         THEN [tree |-> t, pos |-> SeekIndex(t, p.key, p.sop),
               val |-> SeekIndex(t, p.key, p.sop) # 0]
    ELSE IF p.op = "exists"
         THEN [tree |-> t, pos |-> ps, val |-> SeekIndex(t, p.key, "EQ") # 0]
    ELSE [tree |-> InsertKey(t, p.key), pos |-> LowerBound(t, p.key, 1), val |-> TRUE]

\* the first page of the list that is not cached, -1 for none
FirstMissing(pages, have) ==
    LET m == {i \in 1..Len(pages) : pages[i] \notin have}
    IN  IF m = {} THEN -1 ELSE pages[CHOOSE i \in m : \A j \in m : i <= j]

\* a suspension that has already moved the cursor for next and prev
SuspendMoved(p, t, ps) ==
    IF p.op = "next" /\ ps < Len(t) THEN ps + 1
    ELSE IF p.op = "prev" /\ ps >= 2 THEN ps - 1
    ELSE ps

\* the position a call that returns IO leaves the cursor on: the one it had,
\* so that the next call evaluates the operation afresh
Suspend(p, t, ps) == ps

\* one call of operation p: Ok with the outcome if its pages are cached,
\* else a request for the first missing page and IO
Attempt(p) ==
    LET miss == FirstMissing(Pages(p, tree, pos), cached)
    IN  IF miss = -1
        THEN /\ tree' = Outcome(p, tree, pos).tree
             /\ pos' = Outcome(p, tree, pos).pos
             /\ ret' = CursorResultOk(Outcome(p, tree, pos).val)
             /\ UNCHANGED <<cached, inflight>>
        ELSE /\ ret' = CursorResultIO
             /\ inflight' = inflight \cup {miss}
             /\ pos' = Suspend(p, tree, pos)
             /\ UNCHANGED <<tree, cached>>

InitCursor ==
    /\ \E S \in SUBSET Keys : tree = SetToSeq(S)
    /\ pos \in 0..MaxKey /\ pos <= Len(tree)
    /\ cached \in {{}, {RootPage}}
    /\ inflight = {}
    /\ pending = NoOp /\ retries = 0 /\ ret = NoRet /\ calls = 0
    /\ start = [tree |-> tree, pos |-> pos]
    /\ InitValueIdle
    /\ InitRecordIdle

\* the caller begins operation p
Call(p) ==
    /\ ret.tag # "IO"
    /\ calls < MaxCalls
    /\ calls' = calls + 1
    /\ pending' = p
    /\ start' = [tree |-> tree, pos |-> pos]
    /\ Attempt(p)
    /\ retries' = 0
    /\ UNCHANGED <<valueVars, recordVars>>

Rewind == Call(Op("rewind", 0, "EQ", FALSE))

Last == Call(Op("last", 0, "EQ", FALSE))

Next == Call(Op("next", 0, "EQ", FALSE))

Prev == Call(Op("prev", 0, "EQ", FALSE))

Seek == \E k \in Keys : \E s \in SeekOps : Call(Op("seek", k, s, FALSE))

SeekToLast == Call(Op("seek_to_last", 0, "EQ", FALSE))

Insert == \E k \in Keys : \E m \in BOOLEAN : Call(Op("insert", k, "EQ", m))

Exists == \E k \in Keys : Call(Op("exists", k, "EQ", FALSE))

\* the caller, having got IO, makes the identical call again; a call that
\* would only find its page still on the way is made MaxRetries times at most
Poll ==
    /\ ret.tag = "IO"
    /\ IF FirstMissing(Pages(pending, tree, pos), cached) \in inflight
       THEN retries < MaxRetries
       ELSE TRUE
    /\ Attempt(pending)
    /\ retries' = retries + 1
    /\ UNCHANGED <<pending, start, calls, valueVars, recordVars>>

\* the store delivers a requested page
IOComplete ==
    /\ \E pg \in inflight :
          /\ cached' = cached \cup {pg}
          /\ inflight' = inflight \ {pg}
    /\ UNCHANGED <<tree, pos, pending, retries, ret, start, calls, valueVars, recordVars>>

NextCursor ==
    \/ Rewind \/ Last \/ Next \/ Prev \/ Seek \/ SeekToLast \/ Insert \/ Exists
    \/ Poll
    \/ IOComplete

\* the caller keeps polling a pending operation and the store answers every
\* request
SpecCursor ==
    InitCursor /\ [][NextCursor]_vars /\ WF_vars(Poll) /\ WF_vars(IOComplete)

(***************************************************************************)
(* Reference notions the claim about cursors is stated with.               *)
(***************************************************************************)
Least(S) == CHOOSE x \in S : \A y \in S : x <= y

Range(t) == {t[i] : i \in 1..Len(t)}

SeekHits(t, k, sop) ==
    {i \in 1..Len(t) : IF sop = "EQ" THEN t[i] = k
                       ELSE IF sop = "GE" THEN t[i] >= k
                       ELSE t[i] > k}

\* what the operation is to give from the state it was begun in
RefOutcome(p, t, ps) ==
    CASE p.op = "rewind" -> [tree |-> t, pos |-> IF Len(t) = 0 THEN 0 ELSE 1, val |-> TRUE]
      [] p.op \in {"last", "seek_to_last"} -> [tree |-> t, pos |-> Len(t), val |-> TRUE]
      [] p.op = "next" ->
            [tree |-> t, pos |-> IF ps \in 1..(Len(t) - 1) THEN ps + 1 ELSE 0, val |-> TRUE]
      [] p.op = "prev" ->
            [tree |-> t, pos |-> IF ps \in 2..Len(t) THEN ps - 1 ELSE 0, val |-> TRUE]
      [] p.op = "seek" ->
            LET hits == SeekHits(t, p.key, p.sop)
            IN  [tree |-> t, pos |-> IF hits = {} THEN 0 ELSE Least(hits), val |-> hits # {}]
      [] p.op = "exists" -> [tree |-> t, pos |-> ps, val |-> p.key \in Range(t)]
      [] p.op = "insert" ->
            LET u == SetToSeq(Range(t) \cup {p.key})
            IN  [tree |-> u, pos |-> CHOOSE i \in 1..Len(u) : u[i] = p.key, val |-> TRUE]

(***************************************************************************)
(* The claim about cursor polling, checked under SpecCursor.               *)
(***************************************************************************)

\* C8: a cursor operation that returned IO and is called again identically,
\* nothing else touching the cursor, eventually returns Ok, and the Ok it
\* returns, with the rows and position it leaves, is the one the operation
\* gives from the state it was begun in, however many IO results preceded it.
C8_PollingReachesSameOk ==
    /\ (ret.tag = "IO") ~> (ret.tag = "Ok")
    /\ [](ret.tag = "Ok" =>
            /\ ret.val = RefOutcome(pending, start.tree, start.pos).val
            /\ tree = RefOutcome(pending, start.tree, start.pos).tree
            /\ pos = RefOutcome(pending, start.tree, start.pos).pos)

\* C8 witness: a seek returned IO three times or more, for the root, for the
\* leaf and while a page was on its way, and then Ok(true).
C8_Witness ==
    /\ pending.op = "seek"
    /\ retries >= 3
    /\ ret = CursorResultOk(TRUE)

====
